---------------------------- MODULE Spec2Model ----------------------------
(***************************************************************************)
(* Model of AssetService (server/src/domain/asset/asset.service.ts): the   *)
(* stack mutations (updateAll, updateStackParent), the deletion job        *)
(* (handleAssetDeletion) and the trash sweep (handleAssetDeletionCheck),   *)
(* over the asset table, the asset_stack table, the per-user usage         *)
(* counter, the job queue and the client notifications; the trash actions, *)
(* the download planner, and updateAll and handleAssetDeletion cut at their *)
(* awaits for the concurrent and the failing executions.                   *)
(*                                                                         *)
(* The repositories, the access guard and usePagination are not part of    *)
(* the service file; they are modelled at their interface.  The foreign    *)
(* key assets.stackId -> asset_stack.id is the one of migration            *)
(* NewStackTable4 (ON DELETE NO ACTION).                                    *)
(***************************************************************************)
EXTENDS Integers, Sequences, FiniteSets, TLC

\* ------------------------------------------------------------------ bounds
MaxAssets == 3
MaxStacks == 2
\* the page size of the scans (JOBS_ASSET_PAGINATION_SIZE), scaled down
PageSize == 2
\* the largest trash retention drawn for config.trash.days
MaxTrashDays == 1
\* DateTime.now() of the sweep; assets are trashed at 1..Now-1
Now == 3
\* the assets a download selection ranges over
MaxDownloadAssets == 5

\* HumanReadableSize.GiB, in the unit the sizes of the download fixture are
\* counted in (a tenth of a GiB)
GiB == 10

\* null / undefined of the source (asset ids and stack ids start at 1)
NULL == 0

AssetIds == 1..MaxAssets
StackIds == 1..MaxStacks
Users == {"u1", "u2"}

\* LibraryType of the source, plus "NONE" for an asset loaded without library
LibraryTypes == {"UPLOAD", "EXTERNAL", "NONE"}

VARIABLES
  assetRepository,       \* asset table: id -> row, DOMAIN = the rows that exist
  assetStackRepository,  \* asset_stack table: id -> [primaryAssetId]
  usage,                 \* userRepository usage counter: user -> bytes
  jobs,                  \* jobs handed to jobRepository by the latest call
  events,                \* notifications sent by the latest call
  last,                  \* the latest call: its arguments and its result
  config,                \* system config: [trash |-> [enabled, days]]
  queue,                 \* the job dispatcher's pending ASSET_DELETION jobs
  sweep,                 \* handleAssetDeletionCheck in progress: its position
  trash,                 \* handleTrashAction in progress: its position
  download,              \* getDownloadInfo in progress: its locals
  requests               \* the calls under way between their store calls: their locals

vars == <<assetRepository, assetStackRepository, usage, jobs, events, last,
          config, queue, sweep, trash, download, requests>>

\* what the stack and deletion calls leave alone
sweepVars == <<config, queue, sweep, trash, download, requests>>

\* what the trash sweep and the dispatcher leave alone
scanVars == <<trash, download, requests>>

\* ------------------------------------------------------------ small helpers
Min(S) == CHOOSE x \in S : \A y \in S : x <= y

\* the rows of a set in the order of the scan (by id)
RECURSIVE Sorted(_)
Sorted(S) == IF S = {} THEN <<>> ELSE <<Min(S)>> \o Sorted(S \ {Min(S)})

RECURSIVE SumOver(_, _)
SumOver(S, f) ==
  IF S = {} THEN 0
  ELSE LET x == CHOOSE y \in S : TRUE IN f[x] + SumOver(S \ {x}, f)

\* all orders in which a set of rows can be returned by a query without
\* ORDER BY
Orderings(S) ==
  {q \in [1..Cardinality(S) -> S] : \A i, j \in 1..Cardinality(S) : q[i] = q[j] => i = j}

\* Array.prototype.find(a => a !== id), undefined (NULL) when none
FindOther(list, id) ==
  LET idx == {i \in 1..Len(list) : list[i] # id}
  IN IF idx = {} THEN NULL ELSE list[Min(idx)]

\* ------------------------------------------------------------------ fixture
\* The rows the store starts with: every asset exists, none is stacked or
\* trashed.  The immutable columns cover the cases the deletion job
\* distinguishes.
InitLibrary(a) == IF a % 3 = 1 THEN "UPLOAD" ELSE IF a % 3 = 2 THEN "EXTERNAL" ELSE "NONE"
InitFileSize(a) == IF a % 2 = 0 THEN NULL ELSE a
InitOwner(a) == IF a % 3 = 0 THEN "u2" ELSE "u1"
InitLivePhoto(a) == IF a % 3 = 1 /\ a + 3 <= MaxAssets THEN a + 3 ELSE NULL
InitReadOnly(a) == a % 3 = 2

InitRow(a) ==
  [ownerId |-> InitOwner(a),
   stackId |-> NULL,
   libraryType |-> InitLibrary(a),
   fileSizeInByte |-> InitFileSize(a),
   livePhotoVideoId |-> InitLivePhoto(a),
   isReadOnly |-> InitReadOnly(a),
   trashedAt |-> NULL]

\* ------------------------------------------------------------- repositories
\* assetRepository.getByIds: the rows among ids that exist
getByIds(ar, ids) == {a \in ids : a \in DOMAIN ar}

\* relation stack -> assets (OneToMany over assets.stackId)
stackAssets(ar, s) == {a \in DOMAIN ar : ar[a].stackId = s}

\* relation asset -> stack (ManyToOne join), NULL when the asset has none
assetStack(ar, sr, a) ==
  IF ar[a].stackId # NULL /\ ar[a].stackId \in DOMAIN sr THEN ar[a].stackId ELSE NULL

\* assets.stackId REFERENCES asset_stack(id) ON DELETE NO ACTION: the delete of
\* a stack row is rejected while an asset row still references it
fkReferencedNoCheck(ar, s) == FALSE
fkReferenced(ar, s) == \E a \in DOMAIN ar : ar[a].stackId = s

\* assetStackRepository.delete for a set of ids, each delete on its own
stackDeleteAll(ar, sr, S) ==
  [s \in DOMAIN sr \ {x \in S : ~fkReferenced(ar, x)} |-> sr[s]]

stackDeleteRejected(ar, sr, S) == \E s \in S \cap DOMAIN sr : fkReferenced(ar, s)

\* assetStackRepository.create/save with an assets list: the listed rows get
\* stackId = s, the rows that were members and are not listed get NULL
stackSaveAssets(ar, s, ids) ==
  [a \in DOMAIN ar |->
     IF a \in ids THEN [ar[a] EXCEPT !.stackId = s]
     ELSE IF ar[a].stackId = s THEN [ar[a] EXCEPT !.stackId = NULL]
     ELSE ar[a]]

\* assetRepository.updateAll(ids, { stack: null })
assetClearStack(ar, ids) ==
  [a \in DOMAIN ar |-> IF a \in ids THEN [ar[a] EXCEPT !.stackId = NULL] ELSE ar[a]]

\* assetRepository.remove
assetRemove(ar, id) == [a \in DOMAIN ar \ {id} |-> ar[a]]

\* the record of a call: op, its arguments (ids; id: the job's id, stackParentId
\* or oldParentId; other: newParentId; flag: removeParent or fromExternal), its
\* result, and its locals stack, stackIdsToDelete and the loaded member list
Call(op, ids, id, other, flag, result, stack, stackIdsToDelete, loaded) ==
  [op |-> op, ids |-> ids, id |-> id, other |-> other, flag |-> flag,
   result |-> result, stack |-> stack, stackIdsToDelete |-> stackIdsToDelete,
   loaded |-> loaded, log |-> <<>>]

Event(name, user, ids) == [name |-> name, userId |-> user, ids |-> ids]

\* a call the handler issues to a store, in the order of issue
StoreCall(name, id, ids) == [call |-> name, id |-> id, ids |-> ids]

\* stackIdsToDelete.map((id) => assetStackRepository.delete(id))
deleteCalls(S) ==
  [i \in 1..Cardinality(S) |-> StoreCall("assetStackRepository.delete", Sorted(S)[i], {})]

\* the store calls of updateAll in program order: the membership write and
\* assetRepository.updateAll, then the deletes
updateAllCallsDeletesFirst(writes, deletes) == deletes \o writes
updateAllCalls(writes, deletes) == writes \o deletes


\* asset.exifInfo?.fileSizeInByte || 0
fileSize(row) == IF row.fileSizeInByte = NULL THEN 0 ELSE row.fileSizeInByte

\* the paths handleAssetDeletion lists for DELETE_FILES
derivedFiles(id) == {<<id, "webpPath">>, <<id, "resizePath">>,
                     <<id, "encodedVideoPath">>, <<id, "sidecarPath">>}

deletionFiles(id, fromExternal) ==
  IF fromExternal THEN derivedFiles(id) ELSE derivedFiles(id) \cup {<<id, "originalPath">>}

DeletionJob(id, fromExternal) ==
  [name |-> "ASSET_DELETION", id |-> id, fromExternal |-> fromExternal, files |-> {}]

DeleteFilesJob(files) ==
  [name |-> "DELETE_FILES", id |-> NULL, fromExternal |-> FALSE, files |-> files]

\* --------------------------------------------------------------------- Init
InitStore ==
  /\ assetRepository = [a \in AssetIds |-> InitRow(a)]
  /\ assetStackRepository = [s \in {} |-> [primaryAssetId |-> NULL]]
  /\ usage = [u \in Users |->
                SumOver({a \in AssetIds : InitOwner(a) = u},
                        [a \in AssetIds |-> fileSize(InitRow(a))])]

InitSweep == [pc |-> "idle", skip |-> 0, trashedBefore |-> NULL, start |-> {},
              queued |-> <<>>, ran |-> FALSE]

\* no handleTrashAction and no getDownloadInfo under way
InitTrash == [pc |-> "idle", action |-> "NONE", user |-> "u1", skip |-> 0,
              start |-> {}, pages |-> <<>>, sent |-> <<>>, queued |-> <<>>,
              log |-> <<>>]

InitDownload == [pc |-> "idle", archiveSize |-> NULL, rows |-> <<>>, take |-> 1,
                 skip |-> 0, targetSize |-> NULL, objects |-> <<>>, archive |-> NULL,
                 archives |-> <<>>, streamed |-> <<>>,
                 result |-> [totalSize |-> 0, archives |-> <<>>]]

\* the requests and jobs the service can have under way at once
Procs == {1, 2}

\* no call under way: the record of a call and of the locals of its handler
\* (ids: the ids array as the handler has grown it; stack, stackIdsToDelete:
\* the locals of updateAll; asset, isPrimary, stackIds: what handleAssetDeletion
\* loaded; pending: the deletes not yet settled; faults: the store calls of the
\* call that will fail)
NoCall ==
  [op |-> "none", pc |-> "done", user |-> "u1", dtoIds |-> {}, removeParent |-> FALSE,
   stackParentId |-> NULL, id |-> NULL, fromExternal |-> FALSE,
   ids |-> {}, stack |-> NULL, stackIdsToDelete |-> {}, pending |-> {},
   asset |-> InitRow(1), isPrimary |-> FALSE, stackIds |-> <<>>,
   faults |-> 0, failed |-> FALSE, injected |-> FALSE, result |-> "none"]

InitRequests == [p \in Procs |-> NoCall]

Init ==
  /\ InitStore
  /\ config = [trash |-> [enabled |-> TRUE, days |-> MaxTrashDays]]
  /\ queue = <<>>
  /\ sweep = InitSweep
  /\ trash = InitTrash
  /\ download = InitDownload
  /\ requests = InitRequests
  /\ jobs = <<>>
  /\ events = <<>>
  /\ last = [op |-> "init", ids |-> {}, id |-> NULL, other |-> NULL,
             flag |-> FALSE, result |-> "ok", stack |-> NULL, stackIdsToDelete |-> {},
             loaded |-> <<>>, log |-> <<>>]

\* a call that ends before any store write or notification
Rejected(op, result) ==
  /\ UNCHANGED <<assetRepository, assetStackRepository, usage>>
  /\ jobs' = <<>>
  /\ events' = <<>>
  /\ last' = Call(op, {}, NULL, NULL, FALSE, result, NULL, {}, <<>>)

\* ---------------------------------------------------------------- updateAll
\* removeParent: the stacks of the targets, and the ids written
removeParentStacks(ar, ids) ==
  {ar[a].stackId : a \in {x \in getByIds(ar, ids) : ar[x].stackId # NULL}}

removeParentIdsTargetsOnly(ar, sr, ids) == ids

removeParentIds(ar, sr, ids) ==
  ids \cup {sr[assetStack(ar, sr, a)].primaryAssetId :
              a \in {x \in getByIds(ar, ids) :
                       /\ assetStack(ar, sr, x) # NULL
                       /\ sr[assetStack(ar, sr, x)].primaryAssetId # NULL}}

\* stackParentId: the stacks marked for deletion, and the member ids written
stackParentStacksAll(ar, stack, ids) ==
  {ar[a].stackId : a \in {x \in getByIds(ar, ids) : ar[x].stackId # NULL}}

stackParentStacks(ar, stack, ids) ==
  {ar[a].stackId : a \in {x \in getByIds(ar, ids) :
                            ar[x].stackId # NULL /\ ar[x].stackId # stack}}

stackParentIdsTargetsOnly(ar, sr, ids) == ids

stackParentIds(ar, sr, ids) ==
  ids \cup UNION {stackAssets(ar, assetStack(ar, sr, a)) :
                    a \in {x \in getByIds(ar, ids) :
                             /\ assetStack(ar, sr, x) # NULL
                             /\ stackAssets(ar, assetStack(ar, sr, x)) # {}}}

updateAllRemoveParent(user, dtoIds) ==
  LET ar == assetRepository
      sr == assetStackRepository
      stackIdsToDelete == removeParentStacks(ar, dtoIds)
      ids == removeParentIds(ar, sr, dtoIds)
      ar1 == assetClearStack(ar, ids)
      failed == stackDeleteRejected(ar1, sr, stackIdsToDelete)
  IN /\ assetRepository' = ar1
     /\ assetStackRepository' = stackDeleteAll(ar1, sr, stackIdsToDelete)
     /\ events' = IF failed THEN <<>> ELSE <<Event("ASSET_UPDATE", user, ids)>>
     /\ jobs' = <<>>
     /\ last' = [Call("updateAll", dtoIds, NULL, NULL, TRUE,
                      IF failed THEN "Error" ELSE "ok", NULL, stackIdsToDelete, <<>>)
                 EXCEPT !.log = updateAllCalls(
                                  <<StoreCall("assetRepository.updateAll", NULL, ids)>>,
                                  deleteCalls(stackIdsToDelete))]
     /\ UNCHANGED usage

updateAllStackParent(user, dtoIds, stackParentId) ==
  LET ar == assetRepository
      sr == assetStackRepository
      stack == assetStack(ar, sr, stackParentId)
      ids1 == dtoIds \cup {stackParentId}
      stackIdsToDelete == stackParentStacks(ar, stack, ids1)
      ids == stackParentIds(ar, sr, ids1)
      id == IF stack = NULL THEN Min(StackIds \ DOMAIN sr) ELSE stack
      sr1 == [s \in DOMAIN sr \cup {id} |->
                IF s = id THEN [primaryAssetId |-> stackParentId] ELSE sr[s]]
      ar1 == stackSaveAssets(ar, id, ids)
      failed == stackDeleteRejected(ar1, sr1, stackIdsToDelete)
  IN /\ stack = NULL => StackIds \ DOMAIN sr # {}
     /\ assetRepository' = ar1
     /\ assetStackRepository' = stackDeleteAll(ar1, sr1, stackIdsToDelete)
     /\ events' = IF failed THEN <<>> ELSE <<Event("ASSET_UPDATE", user, ids)>>
     /\ jobs' = <<>>
     /\ last' = [Call("updateAll", dtoIds, stackParentId, NULL, FALSE,
                      IF failed THEN "Error" ELSE "ok", stack, stackIdsToDelete, <<>>)
                 EXCEPT !.log = updateAllCalls(
                                  <<StoreCall(IF stack = NULL
                                              THEN "assetStackRepository.create"
                                              ELSE "assetStackRepository.save", id, ids),
                                    StoreCall("assetRepository.updateAll", NULL, ids)>>,
                                  deleteCalls(stackIdsToDelete))]
     /\ UNCHANGED usage

\* requirePermission is the external access guard: granted is its answer for
\* ids, grantedParent its answer for stackParentId
updateAll(user, dtoIds, removeParent, stackParentId, granted, grantedParent) ==
  IF ~granted
  THEN Rejected("updateAll", "Forbidden")
  ELSE IF removeParent
  THEN updateAllRemoveParent(user, dtoIds)
  ELSE IF stackParentId # NULL
  THEN IF ~grantedParent
       THEN Rejected("updateAll", "Forbidden")
       ELSE IF stackParentId \notin DOMAIN assetRepository
       THEN Rejected("updateAll", "Error")
       ELSE updateAllStackParent(user, dtoIds, stackParentId)
  ELSE /\ UNCHANGED <<assetRepository, assetStackRepository, usage>>
       /\ jobs' = <<>>
       /\ events' = <<Event("ASSET_UPDATE", user, dtoIds)>>
       /\ last' = [Call("updateAll", dtoIds, NULL, NULL, FALSE, "ok", NULL, {}, <<>>)
                   EXCEPT !.log = updateAllCalls(
                                    <<StoreCall("assetRepository.updateAll", NULL, dtoIds)>>,
                                    <<>>)]

\* -------------------------------------------------------- updateStackParent
\* assetStackRepository.save({ id, primaryAssetId }): the row id gets the
\* primary, its members are not written
stackSavePrimaryAsNewRow(sr, id, primaryAssetId) ==
  [s \in DOMAIN sr \cup {Min(StackIds \ (DOMAIN sr \ {id}))} |->
     IF s \in DOMAIN sr THEN sr[s] ELSE [primaryAssetId |-> primaryAssetId]]
stackSavePrimary(sr, id, primaryAssetId) ==
  [s \in DOMAIN sr \cup {id} |->
     IF s = id THEN [primaryAssetId |-> primaryAssetId] ELSE sr[s]]

updateStackParent(user, oldParentId, newParentId, granted) ==
  IF ~granted
  THEN Rejected("updateStackParent", "Forbidden")
  ELSE IF oldParentId \notin DOMAIN assetRepository
          \/ assetRepository[oldParentId].stackId = NULL
  THEN Rejected("updateStackParent", "Error")
  ELSE LET id == assetRepository[oldParentId].stackId
           childIds == {oldParentId} \cup stackAssets(assetRepository, id)
       IN /\ assetStackRepository' = stackSavePrimary(assetStackRepository, id, newParentId)
          /\ events' = <<Event("ASSET_UPDATE", user, childIds \cup {newParentId, oldParentId})>>
          /\ jobs' = <<>>
          /\ last' = Call("updateStackParent", {}, oldParentId, newParentId,
                          FALSE, "ok", id, {}, <<>>)
          /\ UNCHANGED <<assetRepository, usage>>

\* ------------------------------------------------------ handleAssetDeletion
\* !fromExternal && (!asset.library || asset.library.type === EXTERNAL)
ignoredExternalOnly(asset, fromExternal) == ~fromExternal /\ asset.libraryType = "EXTERNAL"
ignored(asset, fromExternal) ==
  ~fromExternal /\ (asset.libraryType = "NONE" \/ asset.libraryType = "EXTERNAL")

\* userRepository.updateUsage(asset.ownerId, -(asset.exifInfo?.fileSizeInByte || 0))
updateUsageAdd(u, asset) == [u EXCEPT ![asset.ownerId] = @ + fileSize(asset)]
updateUsage(u, asset) == [u EXCEPT ![asset.ownerId] = @ - fileSize(asset)]

\* stackIds: asset.stack.assets.map(a => a.id), in the order the rows were
\* loaded
handleAssetDeletionPurge(id, fromExternal, stackIds) ==
  LET ar == assetRepository
      sr == assetStackRepository
      asset == ar[id]
      stack == assetStack(ar, sr, id)
      isPrimary == stack # NULL /\ sr[stack].primaryAssetId = id
      failed == isPrimary /\ Len(stackIds) <= 2 /\ stackDeleteRejected(ar, sr, {stack})
      sr1 == IF ~isPrimary THEN sr
             ELSE IF Len(stackIds) > 2
             THEN [sr EXCEPT ![stack].primaryAssetId = FindOther(stackIds, id)]
             ELSE stackDeleteAll(ar, sr, {stack})
  IN IF failed
     THEN /\ UNCHANGED <<assetRepository, assetStackRepository, usage>>
          /\ jobs' = <<>>
          /\ events' = <<>>
          /\ last' = Call("handleAssetDeletion", {}, id, NULL,
                          fromExternal, "Error", stack, {}, stackIds)
     ELSE /\ assetStackRepository' = sr1
          /\ assetRepository' = assetRemove(ar, id)
          /\ usage' = updateUsage(usage, asset)
          /\ events' = <<Event("ASSET_DELETE", asset.ownerId, {id})>>
          /\ jobs' = (IF asset.livePhotoVideoId # NULL
                      THEN <<DeletionJob(asset.livePhotoVideoId, FALSE)>> ELSE <<>>)
                     \o (IF ~asset.isReadOnly
                         THEN <<DeleteFilesJob(deletionFiles(id, fromExternal))>> ELSE <<>>)
          /\ last' = Call("handleAssetDeletion", {}, id, NULL,
                          fromExternal, "true", stack, {}, stackIds)

handleAssetDeletion(id, fromExternal) ==
  IF id \notin DOMAIN assetRepository
  THEN /\ UNCHANGED <<assetRepository, assetStackRepository, usage>>
       /\ jobs' = <<>>
       /\ events' = <<>>
       /\ last' = Call("handleAssetDeletion", {}, id, NULL, fromExternal, "false",
                   NULL, {}, <<>>)
  ELSE IF ignored(assetRepository[id], fromExternal)
  THEN /\ UNCHANGED <<assetRepository, assetStackRepository, usage>>
       /\ jobs' = <<>>
       /\ events' = <<>>
       /\ last' = Call("handleAssetDeletion", {}, id, NULL, fromExternal, "false",
                   NULL, {}, <<>>)
  ELSE LET stack == assetStack(assetRepository, assetStackRepository, id)
       IN \E stackIds \in (IF stack # NULL /\ assetStackRepository[stack].primaryAssetId = id
                           THEN Orderings(stackAssets(assetRepository, stack))
                           ELSE {<<>>}) :
            handleAssetDeletionPurge(id, fromExternal, stackIds)

\* --------------------------------------------------------------------- Next
\* the authenticated callers of the service
Callers == {"u1"}

UpdateAll ==
  \/ \E user \in Callers, dtoIds \in SUBSET AssetIds \ {{}} :
       \/ updateAll(user, dtoIds, TRUE, NULL, TRUE, TRUE)
       \/ \E stackParentId \in AssetIds :
            updateAll(user, dtoIds, FALSE, stackParentId, TRUE, TRUE)
       \/ updateAll(user, dtoIds, FALSE, NULL, TRUE, TRUE)
  \* a refused call leaves the same state whatever it asked for: the guard's
  \* refusals (of ids, of stackParentId) are drawn for one request
  \/ \E user \in Callers, granted \in BOOLEAN :
       updateAll(user, AssetIds, FALSE, Min(AssetIds), granted, ~granted)

UpdateStackParent ==
  \/ \E user \in Callers, oldParentId \in AssetIds, newParentId \in AssetIds :
       updateStackParent(user, oldParentId, newParentId, TRUE)
  \/ \E user \in Callers : updateStackParent(user, Min(AssetIds), Min(AssetIds), FALSE)

HandleAssetDeletion ==
  \E id \in AssetIds, fromExternal \in BOOLEAN : handleAssetDeletion(id, fromExternal)

Next ==
  \/ UpdateAll /\ UNCHANGED sweepVars
  \/ UpdateStackParent /\ UNCHANGED sweepVars
  \/ HandleAssetDeletion /\ UNCHANGED sweepVars

Spec == Init /\ [][Next]_vars

\* ------------------------------------------------- handleAssetDeletionCheck
\* assetRepository.getAll(pagination, { trashedBefore }): one page of the rows
\* trashed before the cutoff, read from the table as it is now
trashedBeforeRows(ar, trashedBefore) ==
  Sorted({a \in DOMAIN ar : ar[a].trashedAt # NULL /\ ar[a].trashedAt < trashedBefore})

paginate(rows, take, skip) ==
  [items |-> SubSeq(rows, skip + 1, IF skip + take < Len(rows) THEN skip + take ELSE Len(rows)),
   hasNextPage |-> Len(rows) > skip + take]

\* config.trash.enabled ? config.trash.days : 0
trashedDays(c) == IF c.trash.enabled THEN c.trash.days ELSE 0

deletionJobs(items) == [i \in 1..Len(items) |-> DeletionJob(items[i], FALSE)]

\* one iteration of the sweep's for-await loop: usePagination fetches the page at
\* skip, the loop body queues its jobs.  The first iteration also reads the
\* config and fixes the cutoff.
handleAssetDeletionCheckPage ==
  LET first == sweep.pc = "idle"
      trashedBefore == IF first THEN Now - trashedDays(config) ELSE sweep.trashedBefore
      rows == trashedBeforeRows(assetRepository, trashedBefore)
      page == paginate(rows, PageSize, sweep.skip)
  IN /\ sweep.pc \in {"idle", "paging"}
     /\ queue' = queue \o deletionJobs(page.items)
     /\ jobs' = deletionJobs(page.items)
     /\ events' = <<>>
     /\ sweep' = [pc |-> IF page.hasNextPage THEN "paging" ELSE "done",
                  skip |-> sweep.skip + PageSize,
                  trashedBefore |-> trashedBefore,
                  start |-> IF first THEN {rows[i] : i \in 1..Len(rows)} ELSE sweep.start,
                  queued |-> sweep.queued \o page.items,
                  ran |-> sweep.ran]
     /\ last' = Call("handleAssetDeletionCheck", {}, NULL, NULL, FALSE,
                     IF page.hasNextPage THEN "paging" ELSE "true", NULL, {}, page.items)
     /\ UNCHANGED <<assetRepository, assetStackRepository, usage, config>>
     /\ UNCHANGED scanVars

\* the dispatcher runs one pending ASSET_DELETION job (its workers take the jobs
\* in any order); the jobs the handler queues join the pending ones
isDeletionJob(job) == job.name = "ASSET_DELETION"

RemoveAt(q, i) == SubSeq(q, 1, i - 1) \o SubSeq(q, i + 1, Len(q))

runAssetDeletion ==
  \E i \in 1..Len(queue) :
    /\ handleAssetDeletion(queue[i].id, queue[i].fromExternal)
    /\ queue' = RemoveAt(queue, i) \o SelectSeq(jobs', isDeletionJob)
    /\ sweep' = [sweep EXCEPT !.ran = @ \/ sweep.pc = "paging"]
    /\ UNCHANGED config
    /\ UNCHANGED scanVars

\* the store the sweep runs over: some assets are in the trash, the retention is
\* any the config allows
InitSweepStore ==
  /\ \E trashedAt \in [AssetIds -> {NULL} \cup 1..(Now - 1)] :
       assetRepository = [a \in AssetIds |-> [InitRow(a) EXCEPT !.trashedAt = trashedAt[a]]]
  /\ assetStackRepository = [s \in {} |-> [primaryAssetId |-> NULL]]
  /\ usage = [u \in Users |->
                SumOver({a \in AssetIds : InitOwner(a) = u},
                        [a \in AssetIds |-> fileSize(InitRow(a))])]
  /\ config \in [trash : [enabled : BOOLEAN, days : 0..MaxTrashDays]]

SweepInit ==
  /\ InitSweepStore
  /\ queue = <<>>
  /\ sweep = InitSweep
  /\ trash = InitTrash
  /\ download = InitDownload
  /\ requests = InitRequests
  /\ jobs = <<>>
  /\ events = <<>>
  /\ last = [op |-> "init", ids |-> {}, id |-> NULL, other |-> NULL,
             flag |-> FALSE, result |-> "ok", stack |-> NULL, stackIdsToDelete |-> {},
             loaded |-> <<>>, log |-> <<>>]

SweepNext == handleAssetDeletionCheckPage \/ runAssetDeletion

SweepSpec == SweepInit /\ [][SweepNext]_vars

\* ------------------------------------- deleteAll, restoreAll, handleTrashAction
\* assetRepository.softDeleteAll(ids): the rows are stamped with the time of the
\* call, which is before the Now of a later scan
softDeleteAll(ar, ids) ==
  [a \in DOMAIN ar |-> IF a \in ids THEN [ar[a] EXCEPT !.trashedAt = Now - 1] ELSE ar[a]]

\* assetRepository.restoreAll(ids)
restoreAllRows(ar, ids) ==
  [a \in DOMAIN ar |-> IF a \in ids THEN [ar[a] EXCEPT !.trashedAt = NULL] ELSE ar[a]]

\* force ? queueAll(ids.map(ASSET_DELETION)) : nothing
deleteAllJobsAlways(ids, force) == deletionJobs(Sorted(ids))
deleteAllJobs(ids, force) == IF force THEN deletionJobs(Sorted(ids)) ELSE <<>>

deleteAll(user, ids, force, granted) ==
  IF ~granted
  THEN Rejected("deleteAll", "Forbidden")
  ELSE /\ assetRepository' = IF force THEN assetRepository
                             ELSE softDeleteAll(assetRepository, ids)
       /\ jobs' = deleteAllJobs(ids, force)
       /\ events' = IF force THEN <<>> ELSE <<Event("ASSET_TRASH", user, ids)>>
       /\ last' = Call("deleteAll", ids, NULL, NULL, force, "ok", NULL, {}, <<>>)
       /\ UNCHANGED <<assetStackRepository, usage>>

restoreAll(user, ids, granted) ==
  IF ~granted
  THEN Rejected("restoreAll", "Forbidden")
  ELSE /\ assetRepository' = restoreAllRows(assetRepository, ids)
       /\ jobs' = <<>>
       /\ events' = <<Event("ASSET_RESTORE", user, ids)>>
       /\ last' = Call("restoreAll", ids, NULL, NULL, FALSE, "ok", NULL, {}, <<>>)
       /\ UNCHANGED <<assetStackRepository, usage>>

\* assetRepository.getByUserId(pagination, userId, { trashedBefore }): the rows
\* of the user trashed before the cutoff, read from the table as it is now
getByUserIdRows(ar, user, trashedBefore) ==
  Sorted({a \in DOMAIN ar : /\ ar[a].ownerId = user
                            /\ ar[a].trashedAt # NULL
                            /\ ar[a].trashedAt < trashedBefore})

Range(q) == {q[i] : i \in 1..Len(q)}

\* communicationRepository.send(ASSET_RESTORE, auth.user.id, ids) of one page,
\* added to the notifications the call has sent
restoreNotifyCombined(sent, user, ids) ==
  <<Event("ASSET_RESTORE", user, ids \cup UNION {sent[i].ids : i \in 1..Len(sent)})>>
restoreNotify(sent, user, ids) == Append(sent, Event("ASSET_RESTORE", user, ids))

\* one iteration of a for-await loop of handleTrashAction: usePagination fetches
\* the page at skip, the loop body restores and notifies (RESTORE_ALL) or queues
\* the deletion jobs (EMPTY_ALL)
handleTrashActionPage(user, action) ==
  LET first == trash.pc = "idle"
      skip == IF first THEN 0 ELSE trash.skip
      rows == getByUserIdRows(assetRepository, user, Now)
      page == paginate(rows, PageSize, skip)
      ids == Range(page.items)
      sent == IF first THEN <<>> ELSE trash.sent
      queued == IF first THEN <<>> ELSE trash.queued
      restore == action = "RESTORE_ALL"
      calls == IF restore
               THEN <<StoreCall("assetRepository.getByUserId", NULL, ids),
                      StoreCall("assetRepository.restoreAll", NULL, ids),
                      StoreCall("communicationRepository.send", NULL, ids)>>
               ELSE <<StoreCall("assetRepository.getByUserId", NULL, ids),
                      StoreCall("jobRepository.queueAll", NULL, ids)>>
  IN /\ trash.pc \in {"idle", "paging"}
     /\ ~first => (user = trash.user /\ action = trash.action)
     /\ assetRepository' = IF restore THEN restoreAllRows(assetRepository, ids)
                            ELSE assetRepository
     /\ events' = IF restore THEN restoreNotify(sent, user, ids) ELSE sent
     /\ jobs' = IF restore THEN queued ELSE queued \o deletionJobs(page.items)
     /\ trash' = [pc |-> IF page.hasNextPage THEN "paging" ELSE "done",
                  action |-> action,
                  user |-> user,
                  skip |-> skip + PageSize,
                  start |-> IF first THEN Range(rows) ELSE trash.start,
                  pages |-> (IF first THEN <<>> ELSE trash.pages) \o <<page.items>>,
                  sent |-> events',
                  queued |-> jobs',
                  log |-> (IF first THEN <<>> ELSE trash.log) \o calls]
     /\ last' = [Call("handleTrashAction", {}, NULL, NULL, restore,
                      IF page.hasNextPage THEN "paging" ELSE "ok", NULL, {}, page.items)
                 EXCEPT !.log = calls]
     /\ UNCHANGED <<assetStackRepository, usage>>

TrashActions == {"RESTORE_ALL", "EMPTY_ALL"}

\* the call has returned: the next handleTrashAction starts a new scan
handleTrashActionReturn ==
  /\ trash.pc = "done"
  /\ trash' = InitTrash
  /\ UNCHANGED <<assetRepository, assetStackRepository, usage, jobs, events, last>>

DeleteAll ==
  \/ \E user \in Callers, ids \in SUBSET AssetIds \ {{}}, force \in BOOLEAN :
       deleteAll(user, ids, force, TRUE)
  \/ \E user \in Callers : deleteAll(user, AssetIds, FALSE, FALSE)

RestoreAll ==
  \/ \E user \in Callers, ids \in SUBSET AssetIds \ {{}} : restoreAll(user, ids, TRUE)
  \/ \E user \in Callers : restoreAll(user, AssetIds, FALSE)

HandleTrashAction ==
  \E user \in Callers, action \in TrashActions : handleTrashActionPage(user, action)

\* the store a trash scan runs over: any ownership of the assets
TrashInit ==
  /\ \E owner \in [AssetIds -> Users] :
       /\ assetRepository = [a \in AssetIds |-> [InitRow(a) EXCEPT !.ownerId = owner[a]]]
       /\ usage = [u \in Users |->
                     SumOver({a \in AssetIds : owner[a] = u},
                             [a \in AssetIds |-> fileSize(InitRow(a))])]
  /\ assetStackRepository = [s \in {} |-> [primaryAssetId |-> NULL]]
  /\ config = [trash |-> [enabled |-> TRUE, days |-> MaxTrashDays]]
  /\ queue = <<>>
  /\ sweep = InitSweep
  /\ trash = InitTrash
  /\ download = InitDownload
  /\ requests = InitRequests
  /\ jobs = <<>>
  /\ events = <<>>
  /\ last = [op |-> "init", ids |-> {}, id |-> NULL, other |-> NULL,
             flag |-> FALSE, result |-> "ok", stack |-> NULL, stackIdsToDelete |-> {},
             loaded |-> <<>>, log |-> <<>>]

TrashNext ==
  \/ DeleteAll /\ UNCHANGED sweepVars
  \/ RestoreAll /\ UNCHANGED sweepVars
  \/ HandleTrashAction /\ UNCHANGED <<config, queue, sweep, download, requests>>
  \/ handleTrashActionReturn /\ UNCHANGED <<config, queue, sweep, download, requests>>

TrashSpec == TrashInit /\ [][TrashNext]_vars

\* the store a handleTrashAction runs over when nothing else is under way: any
\* ownership of the assets, any of them in the trash
TrashAloneInit ==
  /\ \E owner \in [AssetIds -> Users], trashedAt \in [AssetIds -> {NULL} \cup 1..(Now - 1)] :
       /\ assetRepository = [a \in AssetIds |-> [InitRow(a) EXCEPT !.ownerId = owner[a],
                                                                  !.trashedAt = trashedAt[a]]]
       /\ usage = [u \in Users |->
                     SumOver({a \in AssetIds : owner[a] = u},
                             [a \in AssetIds |-> fileSize(InitRow(a))])]
  /\ assetStackRepository = [s \in {} |-> [primaryAssetId |-> NULL]]
  /\ config = [trash |-> [enabled |-> TRUE, days |-> MaxTrashDays]]
  /\ queue = <<>>
  /\ sweep = InitSweep
  /\ trash = InitTrash
  /\ download = InitDownload
  /\ requests = InitRequests
  /\ jobs = <<>>
  /\ events = <<>>
  /\ last = [op |-> "init", ids |-> {}, id |-> NULL, other |-> NULL,
             flag |-> FALSE, result |-> "ok", stack |-> NULL, stackIdsToDelete |-> {},
             loaded |-> <<>>, log |-> <<>>]

\* one handleTrashAction at a time, and no other call between its pages
TrashAloneNext ==
  \/ HandleTrashAction /\ UNCHANGED <<config, queue, sweep, download, requests>>
  \/ handleTrashActionReturn /\ UNCHANGED <<config, queue, sweep, download, requests>>

TrashAloneSpec == TrashAloneInit /\ [][TrashAloneNext]_vars

\* ----------------------------------------------- live-photo deletion cascade
\* the store a deletion cascade runs over: a photo p whose live-photo companion
\* is m, both in the same library (or both without one), and one deletion job
\* pending, queued by an internal request (fromExternal unset) or by the
\* external-library sweep (fromExternal set)
CascadeInit ==
  /\ \E p \in AssetIds, m \in AssetIds, type \in LibraryTypes :
       /\ m # p
       /\ assetRepository =
           [a \in AssetIds |->
              IF a = p THEN [InitRow(a) EXCEPT !.livePhotoVideoId = m, !.libraryType = type]
              ELSE IF a = m THEN [InitRow(a) EXCEPT !.livePhotoVideoId = NULL,
                                                    !.libraryType = type]
              ELSE [InitRow(a) EXCEPT !.livePhotoVideoId = NULL]]
  /\ assetStackRepository = [s \in {} |-> [primaryAssetId |-> NULL]]
  /\ usage = [u \in Users |->
                SumOver({a \in AssetIds : InitOwner(a) = u},
                        [a \in AssetIds |-> fileSize(InitRow(a))])]
  /\ config = [trash |-> [enabled |-> TRUE, days |-> MaxTrashDays]]
  /\ \E id \in AssetIds, fromExternal \in BOOLEAN : queue = <<DeletionJob(id, fromExternal)>>
  /\ sweep = InitSweep
  /\ trash = InitTrash
  /\ download = InitDownload
  /\ requests = InitRequests
  /\ jobs = <<>>
  /\ events = <<>>
  /\ last = [op |-> "init", ids |-> {}, id |-> NULL, other |-> NULL,
             flag |-> FALSE, result |-> "ok", stack |-> NULL, stackIdsToDelete |-> {},
             loaded |-> <<>>, log |-> <<>>]

CascadeNext == runAssetDeletion

\* the dispatcher runs every job it holds ("will eventually run")
CascadeSpec == CascadeInit /\ [][CascadeNext]_vars /\ WF_vars(runAssetDeletion)

\* ---------------------------------------------------------- getDownloadInfo
DownloadIds == 1..MaxDownloadAssets

\* the sizes of the assets of a download: 1, 1, 1, 1.5 and 0.6 GiB, and no
\* recorded size for any further asset
DownloadFileSize(a) ==
  IF a <= 3 THEN GiB
  ELSE IF a = 4 THEN (3 * GiB) \div 2
  ELSE IF a = 5 THEN (6 * GiB) \div 10
  ELSE NULL

RECURSIVE SeqSum(_)
SeqSum(q) == IF q = <<>> THEN 0 ELSE Head(q) + SeqSum(Tail(q))

\* dto.archiveSize || HumanReadableSize.GiB * 4
targetSizeOf(archiveSize) == IF archiveSize = NULL THEN GiB * 4 ELSE archiveSize

\* assets.map((asset) => asset.livePhotoVideoId).filter((id) => !!id), then
\* assetRepository.getByIds(motionIds): the companion rows that exist
motionAssets(ar, assets) ==
  Sorted(getByIds(ar, {ar[assets[i]].livePhotoVideoId : i \in 1..Len(assets)} \ {NULL}))

\* the body of the inner loop for one asset.  The archives are objects: st.objects
\* holds them, st.archive is the one the local variable archive refers to, and
\* st.archives lists the references pushed to the output
addAsset(ar, st, a) ==
  LET cur == st.archive
      objects == [st.objects EXCEPT ![cur] =
                    [size |-> @.size + fileSize(ar[a]),
                     assetIds |-> Append(@.assetIds, a)]]
  IN IF objects[cur].size > st.targetSize
     THEN [st EXCEPT !.objects = Append(objects, [size |-> 0, assetIds |-> <<>>]),
                     !.archives = Append(@, cur),
                     !.archive = Len(objects) + 1]
     ELSE [st EXCEPT !.objects = objects]

RECURSIVE addAssets(_, _, _)
addAssets(ar, st, assets) ==
  IF assets = <<>> THEN st
  ELSE addAssets(ar, addAsset(ar, st, Head(assets)), Tail(assets))

\* if (archive.assetIds.length > 0) archives.push(archive), at the end of the
\* body of the page loop
pushAccumulator(st, hasNextPage) ==
  IF Len(st.objects[st.archive].assetIds) > 0
  THEN [st EXCEPT !.archives = Append(@, st.archive)]
  ELSE st

\* the entry of getDownloadInfo: the target size, the empty accumulator, and
\* getDownloadAssets with its permission check
getDownloadInfoStart(granted) ==
  /\ download.pc = "start"
  /\ download' =
       IF ~granted
       THEN [download EXCEPT !.pc = "Forbidden"]
       ELSE [download EXCEPT !.pc = "paging",
                             !.targetSize = targetSizeOf(download.archiveSize),
                             !.objects = <<[size |-> 0, assetIds |-> <<>>]>>,
                             !.archive = 1,
                             !.archives = <<>>,
                             !.skip = 0]
  /\ UNCHANGED <<assetRepository, assetStackRepository, usage, jobs, events, last>>

\* one iteration of the for-await loop: the page, its companions appended, the
\* inner loop, and the push at the end of the body
getDownloadInfoPage ==
  LET page == paginate(download.rows, download.take, download.skip)
      assets == page.items \o motionAssets(assetRepository, page.items)
      st == pushAccumulator(addAssets(assetRepository, download, assets), page.hasNextPage)
  IN /\ download.pc = "paging"
     /\ download' = [st EXCEPT !.pc = IF page.hasNextPage THEN "paging" ELSE "returning",
                               !.skip = @ + download.take,
                               !.streamed = @ \o assets]
     /\ UNCHANGED <<assetRepository, assetStackRepository, usage, jobs, events, last>>

\* return { totalSize: archives.reduce(...), archives }
getDownloadInfoReturn ==
  LET archives == [i \in 1..Len(download.archives) |-> download.objects[download.archives[i]]]
  IN /\ download.pc = "returning"
     /\ download' = [download EXCEPT
                       !.pc = "done",
                       !.result = [totalSize |-> SeqSum([i \in 1..Len(archives) |->
                                                           archives[i].size]),
                                   archives |-> archives]]
     /\ UNCHANGED <<assetRepository, assetStackRepository, usage, jobs, events, last>>

\* the selections a download is asked for: the assets in the order of the scan,
\* in pages of any size (one page for an explicit id list), the archive size
\* absent or given, and at most one live photo among the assets
DownloadInit ==
  /\ \E live \in [DownloadIds -> DownloadIds \cup {NULL}] :
       /\ Cardinality({a \in DownloadIds : live[a] # NULL}) <= 1
       /\ \A a \in DownloadIds : live[a] # a
       /\ assetRepository =
            [a \in DownloadIds |->
               [InitRow(a) EXCEPT !.fileSizeInByte = DownloadFileSize(a),
                                  !.livePhotoVideoId = live[a]]]
  /\ assetStackRepository = [s \in {} |-> [primaryAssetId |-> NULL]]
  /\ usage = [u \in Users |->
                SumOver({a \in DownloadIds : InitOwner(a) = u},
                        [a \in DownloadIds |->
                           IF DownloadFileSize(a) = NULL THEN 0 ELSE DownloadFileSize(a)])]
  /\ config = [trash |-> [enabled |-> TRUE, days |-> MaxTrashDays]]
  /\ queue = <<>>
  /\ sweep = InitSweep
  /\ trash = InitTrash
  /\ \E S \in SUBSET DownloadIds, take \in 1..MaxDownloadAssets,
        archiveSize \in {NULL, GiB, 2 * GiB} :
       download = [InitDownload EXCEPT !.pc = "start", !.rows = Sorted(S),
                                       !.take = take, !.archiveSize = archiveSize]
  /\ requests = InitRequests
  /\ jobs = <<>>
  /\ events = <<>>
  /\ last = [op |-> "init", ids |-> {}, id |-> NULL, other |-> NULL,
             flag |-> FALSE, result |-> "ok", stack |-> NULL, stackIdsToDelete |-> {},
             loaded |-> <<>>, log |-> <<>>]

DownloadNext ==
  \/ (\E granted \in BOOLEAN : getDownloadInfoStart(granted))
       /\ UNCHANGED <<config, queue, sweep, trash, requests>>
  \/ getDownloadInfoPage /\ UNCHANGED <<config, queue, sweep, trash, requests>>
  \/ getDownloadInfoReturn /\ UNCHANGED <<config, queue, sweep, trash, requests>>

DownloadSpec == DownloadInit /\ [][DownloadNext]_vars

\* ------------------------------------------- the handlers, store call by store call
\* A request runs its handler one store call at a time; between two store calls
\* (the awaits of the source) the other request may run.  Each store call is
\* atomic.  The handlers are the ones above, cut at their awaits.

\* what a step of a request leaves alone besides the stores it does not write
requestFrame == <<config, queue, sweep, trash, download, last>>

\* an updateAll request the guard has let through
UpdateAllRequest(user, dtoIds, removeParent, stackParentId, faults) ==
  [NoCall EXCEPT !.op = "updateAll", !.pc = "start", !.user = user, !.dtoIds = dtoIds,
                 !.removeParent = removeParent, !.stackParentId = stackParentId,
                 !.ids = dtoIds, !.faults = faults]

\* a delivery of an ASSET_DELETION job
DeletionRequest(id, fromExternal, faults) ==
  [NoCall EXCEPT !.op = "handleAssetDeletion", !.pc = "start", !.id = id,
                 !.fromExternal = fromExternal, !.faults = faults]

\* the request has returned or thrown
Complete(c) == c.pc \in {"done", "failed"}

\* removeParent: assetRepository.getByIds(ids), stackIdsToDelete and the
\* primaries pushed to ids
updateAllGetByIds(p) ==
  LET c == requests[p]
  IN /\ c.op = "updateAll" /\ c.pc = "start" /\ c.removeParent
     /\ requests' = [requests EXCEPT ![p] =
          [c EXCEPT !.pc = "write",
                    !.stackIdsToDelete = removeParentStacks(assetRepository, c.dtoIds),
                    !.ids = removeParentIds(assetRepository, assetStackRepository, c.dtoIds)]]
     /\ UNCHANGED <<assetRepository, assetStackRepository, usage, jobs, events>>
     /\ UNCHANGED requestFrame

\* stackParentId: assetRepository.getById(options.stackParentId) and
\* let stack = primaryAsset.stack
updateAllGetById(p) ==
  LET c == requests[p]
  IN /\ c.op = "updateAll" /\ c.pc = "start" /\ ~c.removeParent /\ c.stackParentId # NULL
     /\ requests' = [requests EXCEPT ![p] =
          IF c.stackParentId \notin DOMAIN assetRepository
          THEN [c EXCEPT !.pc = "failed", !.failed = TRUE, !.result = "Error"]
          ELSE [c EXCEPT !.pc = "load",
                         !.stack = assetStack(assetRepository, assetStackRepository,
                                              c.stackParentId)]]
     /\ UNCHANGED <<assetRepository, assetStackRepository, usage, jobs, events>>
     /\ UNCHANGED requestFrame

\* stackParentId: ids.push(stackParentId), assetRepository.getByIds(ids),
\* stackIdsToDelete and the siblings pushed to ids
updateAllGetSiblings(p) ==
  LET c == requests[p]
      ids1 == c.dtoIds \cup {c.stackParentId}
  IN /\ c.op = "updateAll" /\ c.pc = "load"
     /\ requests' = [requests EXCEPT ![p] =
          [c EXCEPT !.pc = "save",
                    !.stackIdsToDelete = stackParentStacks(assetRepository, c.stack, ids1),
                    !.ids = stackParentIds(assetRepository, assetStackRepository, ids1)]]
     /\ UNCHANGED <<assetRepository, assetStackRepository, usage, jobs, events>>
     /\ UNCHANGED requestFrame

\* stackParentId: assetStackRepository.create, or save into the stack the parent
\* had when it was read; the row and its members are written in one store call
updateAllSaveStack(p) ==
  LET c == requests[p]
      id == IF c.stack = NULL THEN Min(StackIds \ DOMAIN assetStackRepository) ELSE c.stack
  IN /\ c.op = "updateAll" /\ c.pc = "save"
     /\ c.stack = NULL => StackIds \ DOMAIN assetStackRepository # {}
     /\ assetStackRepository' = stackSavePrimary(assetStackRepository, id, c.stackParentId)
     /\ assetRepository' = stackSaveAssets(assetRepository, id, c.ids)
     /\ requests' = [requests EXCEPT ![p] = [c EXCEPT !.pc = "write", !.stack = id]]
     /\ UNCHANGED <<usage, jobs, events>>
     /\ UNCHANGED requestFrame

\* the request is over once no delete is pending: it throws when a delete was
\* refused, otherwise it sends ASSET_UPDATE with ids and returns
settled(c, pending, failed) ==
  [c EXCEPT !.pending = pending,
            !.failed = failed,
            !.pc = IF pending # {} THEN "delete" ELSE IF failed THEN "failed" ELSE "done",
            !.result = IF pending # {} THEN c.result ELSE IF failed THEN "Error" ELSE "ok"]

notified(c) ==
  IF c.pc = "done" /\ c.op = "updateAll"
  THEN Append(events, Event("ASSET_UPDATE", c.user, c.ids)) ELSE events

\* assetRepository.updateAll(ids, options): options.stack is null for
\* removeParent and absent otherwise; then the deletes are issued
updateAllWrite(p) ==
  LET c == requests[p]
      c1 == settled(c, c.stackIdsToDelete, FALSE)
  IN /\ c.op = "updateAll" /\ c.pc = "write"
     /\ assetRepository' = IF c.removeParent THEN assetClearStack(assetRepository, c.ids)
                            ELSE assetRepository
     /\ requests' = [requests EXCEPT ![p] = c1]
     /\ events' = notified(c1)
     /\ UNCHANGED <<assetStackRepository, usage, jobs>>
     /\ UNCHANGED requestFrame

\* one assetStackRepository.delete(id) of the Promise.all: the deletes are
\* settled one by one, in any order, each against the rows as they are then
updateAllDelete(p) ==
  LET c == requests[p]
  IN /\ c.op = "updateAll" /\ c.pc = "delete"
     /\ \E s \in c.pending :
          LET refused == stackDeleteRejected(assetRepository, assetStackRepository, {s})
              c1 == settled(c, c.pending \ {s}, c.failed \/ refused)
          IN /\ assetStackRepository' =
                  stackDeleteAll(assetRepository, assetStackRepository, {s})
             /\ requests' = [requests EXCEPT ![p] = c1]
             /\ events' = notified(c1)
     /\ UNCHANGED <<assetRepository, usage, jobs>>
     /\ UNCHANGED requestFrame

\* handleAssetDeletion: assetRepository.getById(id), the two early returns, and
\* what the handler keeps of the loaded asset
handleAssetDeletionGetById(p) ==
  LET c == requests[p]
      ar == assetRepository
      sr == assetStackRepository
  IN /\ c.op = "handleAssetDeletion" /\ c.pc = "start"
     /\ IF c.id \notin DOMAIN ar \/ ignored(ar[c.id], c.fromExternal)
        THEN requests' = [requests EXCEPT ![p] = [c EXCEPT !.pc = "done", !.result = "false"]]
        ELSE LET stack == assetStack(ar, sr, c.id)
                 isPrimary == stack # NULL /\ sr[stack].primaryAssetId = c.id
             IN \E stackIds \in (IF isPrimary THEN Orderings(stackAssets(ar, stack))
                                 ELSE {<<>>}) :
                  requests' = [requests EXCEPT ![p] =
                    [c EXCEPT !.pc = IF isPrimary THEN "stack" ELSE "remove",
                              !.asset = ar[c.id],
                              !.stack = stack,
                              !.isPrimary = isPrimary,
                              !.stackIds = stackIds]]
     /\ UNCHANGED <<assetRepository, assetStackRepository, usage, jobs, events>>
     /\ UNCHANGED requestFrame

\* the asset was the primary: save the next primary, or delete the stack
handleAssetDeletionStack(p) ==
  LET c == requests[p]
      ar == assetRepository
      sr == assetStackRepository
      refused == Len(c.stackIds) <= 2 /\ stackDeleteRejected(ar, sr, {c.stack})
  IN /\ c.op = "handleAssetDeletion" /\ c.pc = "stack"
     /\ assetStackRepository' =
          IF Len(c.stackIds) > 2
          THEN stackSavePrimary(sr, c.stack, FindOther(c.stackIds, c.id))
          ELSE stackDeleteAll(ar, sr, {c.stack})
     /\ requests' = [requests EXCEPT ![p] =
          IF refused THEN [c EXCEPT !.pc = "failed", !.failed = TRUE, !.result = "Error"]
          ELSE [c EXCEPT !.pc = "remove"]]
     /\ UNCHANGED <<assetRepository, usage, jobs, events>>
     /\ UNCHANGED requestFrame

\* assetRepository.remove(asset)
handleAssetDeletionRemove(p) ==
  LET c == requests[p]
  IN /\ c.op = "handleAssetDeletion" /\ c.pc = "remove"
     /\ assetRepository' = assetRemove(assetRepository, c.id)
     /\ requests' = [requests EXCEPT ![p] = [c EXCEPT !.pc = "usage"]]
     /\ UNCHANGED <<assetStackRepository, usage, jobs, events>>
     /\ UNCHANGED requestFrame

\* userRepository.updateUsage with the size of the asset as loaded, and
\* communicationRepository.send(ASSET_DELETE)
handleAssetDeletionUpdateUsage(p) ==
  LET c == requests[p]
  IN /\ c.op = "handleAssetDeletion" /\ c.pc = "usage"
     /\ usage' = updateUsage(usage, c.asset)
     /\ events' = Append(events, Event("ASSET_DELETE", c.asset.ownerId, {c.id}))
     /\ requests' = [requests EXCEPT ![p] = [c EXCEPT !.pc = "queue"]]
     /\ UNCHANGED <<assetRepository, assetStackRepository, jobs>>
     /\ UNCHANGED requestFrame

\* the follow-up jobs, and return true
handleAssetDeletionQueue(p) ==
  LET c == requests[p]
  IN /\ c.op = "handleAssetDeletion" /\ c.pc = "queue"
     /\ jobs' = jobs
                \o (IF c.asset.livePhotoVideoId # NULL
                    THEN <<DeletionJob(c.asset.livePhotoVideoId, FALSE)>> ELSE <<>>)
                \o (IF ~c.asset.isReadOnly
                    THEN <<DeleteFilesJob(deletionFiles(c.id, c.fromExternal))>> ELSE <<>>)
     /\ requests' = [requests EXCEPT ![p] = [c EXCEPT !.pc = "done", !.result = "true"]]
     /\ UNCHANGED <<assetRepository, assetStackRepository, usage, events>>
     /\ UNCHANGED requestFrame

\* the store call the request is about to make fails (the store is down, the
\* worker is killed): the handler throws there, and nothing of the call is
\* written.  A failed delete of the Promise.all leaves the other deletes to
\* settle.
storeCallFails(p) ==
  LET c == requests[p]
  IN /\ ~Complete(c)
     /\ c.faults > 0
     /\ IF c.pc = "delete"
        THEN \E s \in c.pending :
               requests' = [requests EXCEPT ![p] =
                 [settled(c, c.pending \ {s}, TRUE) EXCEPT !.faults = c.faults - 1,
                                                           !.injected = TRUE]]
        ELSE requests' = [requests EXCEPT ![p] =
               [c EXCEPT !.pc = "failed", !.failed = TRUE, !.result = "Error",
                         !.faults = c.faults - 1, !.injected = TRUE]]
     /\ UNCHANGED <<assetRepository, assetStackRepository, usage, jobs, events>>
     /\ UNCHANGED requestFrame

\* the stacks the store can hold when the requests arrive: every asset in at
\* most one stack, the stacks numbered in the order of their first member, the
\* primary of a stack one of its members
StackFixtures ==
  {f \in [stackId : [AssetIds -> {NULL} \cup StackIds],
          primaryAssetId : [StackIds -> {NULL} \cup AssetIds]] :
     /\ \A s \in StackIds :
          IF \E a \in AssetIds : f.stackId[a] = s
          THEN /\ f.primaryAssetId[s] # NULL
               /\ f.stackId[f.primaryAssetId[s]] = s
               /\ \A t \in StackIds : t < s =>
                    /\ \E a \in AssetIds : f.stackId[a] = t
                    /\ Min({a \in AssetIds : f.stackId[a] = t})
                         < Min({a \in AssetIds : f.stackId[a] = s})
          ELSE f.primaryAssetId[s] = NULL}

InitStacks(f) ==
  /\ assetRepository = [a \in AssetIds |-> [InitRow(a) EXCEPT !.stackId = f.stackId[a]]]
  /\ assetStackRepository =
       [s \in {t \in StackIds : f.primaryAssetId[t] # NULL} |->
          [primaryAssetId |-> f.primaryAssetId[s]]]
  /\ usage = [u \in Users |->
                SumOver({a \in AssetIds : InitOwner(a) = u},
                        [a \in AssetIds |-> fileSize(InitRow(a))])]

InitRequestFrame ==
  /\ config = [trash |-> [enabled |-> TRUE, days |-> MaxTrashDays]]
  /\ queue = <<>>
  /\ sweep = InitSweep
  /\ trash = InitTrash
  /\ download = InitDownload
  /\ jobs = <<>>
  /\ events = <<>>
  /\ last = [op |-> "init", ids |-> {}, id |-> NULL, other |-> NULL,
             flag |-> FALSE, result |-> "ok", stack |-> NULL, stackIdsToDelete |-> {},
             loaded |-> <<>>, log |-> <<>>]

\* the stack mutations a request can ask for
StackMutations(faults) ==
  {UpdateAllRequest(user, dtoIds, TRUE, NULL, faults) :
     user \in Callers, dtoIds \in SUBSET AssetIds \ {{}}}
  \cup {UpdateAllRequest(x[1], x[2], FALSE, x[3], faults) :
          x \in Callers \X (SUBSET AssetIds \ {{}}) \X AssetIds}

\* two updateAll stack mutations arrive together
MutationInit ==
  /\ \E f \in StackFixtures : InitStacks(f)
  /\ requests \in [Procs -> StackMutations(0)]
  /\ InitRequestFrame

MutationNext ==
  \E p \in Procs :
    \/ updateAllGetByIds(p)
    \/ updateAllGetById(p)
    \/ updateAllGetSiblings(p)
    \/ updateAllSaveStack(p)
    \/ updateAllWrite(p)
    \/ updateAllDelete(p)

MutationSpec == MutationInit /\ [][MutationNext]_vars

\* one call, updateAll or handleAssetDeletion, of which one store call may fail
FailureInit ==
  /\ \E f \in StackFixtures : InitStacks(f)
  /\ \E faults \in {0, 1} :
       \E c \in StackMutations(faults)
                \cup {DeletionRequest(id, fromExternal, faults) :
                        id \in AssetIds, fromExternal \in BOOLEAN} :
         requests = [p \in Procs |-> IF p = 1 THEN c ELSE NoCall]
  /\ InitRequestFrame

FailureNext ==
  \E p \in Procs :
    \/ updateAllGetByIds(p)
    \/ updateAllGetById(p)
    \/ updateAllGetSiblings(p)
    \/ updateAllSaveStack(p)
    \/ updateAllWrite(p)
    \/ updateAllDelete(p)
    \/ handleAssetDeletionGetById(p)
    \/ handleAssetDeletionStack(p)
    \/ handleAssetDeletionRemove(p)
    \/ handleAssetDeletionUpdateUsage(p)
    \/ handleAssetDeletionQueue(p)
    \/ storeCallFails(p)

FailureSpec == FailureInit /\ [][FailureNext]_vars

\* one ASSET_DELETION job delivered twice: the second delivery runs while the
\* first is under way, or after it has returned or failed
RedeliveryInit ==
  /\ \E f \in StackFixtures : InitStacks(f)
  /\ \E id \in AssetIds, fromExternal \in BOOLEAN, faults \in {0, 1} :
       requests = [p \in Procs |-> DeletionRequest(id, fromExternal,
                                                   IF p = 1 THEN faults ELSE 0)]
  /\ InitRequestFrame

RedeliveryNext ==
  \E p \in Procs :
    \/ handleAssetDeletionGetById(p)
    \/ handleAssetDeletionStack(p)
    \/ handleAssetDeletionRemove(p)
    \/ handleAssetDeletionUpdateUsage(p)
    \/ handleAssetDeletionQueue(p)
    \/ storeCallFails(p)

RedeliverySpec == RedeliveryInit /\ [][RedeliveryNext]_vars

TypeOK ==
  /\ DOMAIN assetRepository \subseteq AssetIds \cup DownloadIds
  /\ DOMAIN assetStackRepository \subseteq StackIds
  /\ \A a \in DOMAIN assetRepository : assetRepository[a].libraryType \in LibraryTypes
  /\ \A i \in 1..Len(queue) : isDeletionJob(queue[i])


\* ------------------------------------------------------------------- claims
Members(s) == stackAssets(assetRepository, s)

\* the step is a handleAssetDeletion job for id that got past the lookup
DeletionStep(id) ==
  /\ last'.op = "handleAssetDeletion"
  /\ last'.id = id
  /\ id \in DOMAIN assetRepository

\* the step is an updateAll with stackParentId = p over targets, let through by
\* the guard, p an existing asset
StackParentStep(targets, p) ==
  /\ last'.op = "updateAll"
  /\ last'.id = p
  /\ last'.ids = targets
  /\ p \in DOMAIN assetRepository

\* C1: every existing stack's primaryAssetId is the id of an asset that is
\* currently a member of that stack.
C1_PrimaryIsMember ==
  \A s \in DOMAIN assetStackRepository :
    assetStackRepository[s].primaryAssetId \in Members(s)

\* C2: every asset whose stackId is non-null references a stack row that exists
\* and whose member set contains the asset.
C2_StackIdReferencesStack ==
  \A a \in DOMAIN assetRepository :
    assetRepository[a].stackId # NULL =>
      /\ assetRepository[a].stackId \in DOMAIN assetStackRepository
      /\ a \in Members(assetRepository[a].stackId)

\* a stack delete was refused because a member still referenced the stack, and
\* the member still does
C2_Witness ==
  /\ last.op = "updateAll"
  /\ last.result = "Error"
  /\ \E a \in DOMAIN assetRepository : assetRepository[a].stackId \in last.stackIdsToDelete

\* C4: after a completed operation that removes an asset from a stack (a
\* deletion of a member, an updateAll with removeParent over a member), that
\* stack has at least 2 members or is deleted with no asset left pointing at it.
C4_NoStackBelowTwo ==
  [][\A a \in DOMAIN assetRepository :
       LET s == assetRepository[a].stackId
       IN (/\ s # NULL
           /\ s \in DOMAIN assetStackRepository
           /\ \/ DeletionStep(a) /\ last'.result = "true"
              \/ last'.op = "updateAll" /\ last'.flag /\ last'.result = "ok"
                 /\ a \in last'.ids)
          => IF s \in DOMAIN assetStackRepository'
             THEN Cardinality(stackAssets(assetRepository', s)) >= 2
             ELSE stackAssets(assetRepository', s) = {}]_vars

\* C5: after updateAll with stackParentId = p over existing targets of which one
\* belongs to a stack other than p's, the call has succeeded, one stack holds p,
\* the targets, the members of every stack a target belonged to (and the members
\* p's stack had), its primary is p, and every other stack a target belonged to
\* no longer exists.
C5_MergeLeavesOneStack ==
  [][\A p \in AssetIds, targets \in SUBSET AssetIds :
       (/\ StackParentStep(targets, p)
        /\ targets \subseteq DOMAIN assetRepository
        /\ \E t \in targets :
             /\ assetStack(assetRepository, assetStackRepository, t) # NULL
             /\ assetRepository[t].stackId # assetRepository[p].stackId)
       => LET old == {assetRepository[t].stackId : t \in targets \cup {p}} \ {NULL}
              union == targets \cup {p} \cup UNION {Members(s) : s \in old}
              dest == assetRepository'[p].stackId
          IN /\ last'.result = "ok"
             /\ dest \in DOMAIN assetStackRepository'
             /\ stackAssets(assetRepository', dest) = union
             /\ assetStackRepository'[dest].primaryAssetId = p
             /\ \A s \in old : s # dest => s \notin DOMAIN assetStackRepository'
             /\ \A s \in DOMAIN assetStackRepository' :
                  s # dest => stackAssets(assetRepository', s) \cap union = {}]_vars

\* a merge has moved the members of a target's stack into the parent's stack and
\* deleted the target's stack
C5_Witness ==
  /\ last.op = "updateAll"
  /\ last.result = "ok"
  /\ last.id # NULL
  /\ last.stackIdsToDelete # {}
  /\ last.stackIdsToDelete \cap DOMAIN assetStackRepository = {}
  /\ Cardinality(Members(assetRepository[last.id].stackId)) > Cardinality(last.ids) + 1

\* the start of C6: a stack s = {a, b} with primary a, and a loose asset c
C6_Start(s, a, b, c) ==
  /\ s \in DOMAIN assetStackRepository
  /\ assetStackRepository[s].primaryAssetId = a
  /\ a # b /\ c \notin {a, b}
  /\ Members(s) = {a, b}
  /\ c \in DOMAIN assetRepository
  /\ assetRepository[c].stackId = NULL

\* C6 as stated: from stack {a,b} with primary a and loose c, updateAll(ids=[c],
\* stackParentId=a) yields one stack {a,b,c} with primary a, and the original
\* stack row is gone.
C6_OriginalRowGone ==
  [][\A s \in StackIds, a, b, c \in AssetIds :
       (C6_Start(s, a, b, c) /\ StackParentStep({c}, a))
       => /\ \E d \in DOMAIN assetStackRepository' :
               /\ stackAssets(assetRepository', d) = {a, b, c}
               /\ assetStackRepository'[d].primaryAssetId = a
          /\ s \notin DOMAIN assetStackRepository']_vars

\* C6 amended: the original stack row is kept and reused: it is the one stack
\* with members {a,b,c} and primary a, and no stack row is created or deleted.
C6_OriginalRowReused ==
  [][\A s \in StackIds, a, b, c \in AssetIds :
       (C6_Start(s, a, b, c) /\ StackParentStep({c}, a))
       => /\ last'.result = "ok"
          /\ DOMAIN assetStackRepository' = DOMAIN assetStackRepository
          /\ stackAssets(assetRepository', s) = {a, b, c}
          /\ assetStackRepository'[s].primaryAssetId = a
          /\ \A d \in DOMAIN assetStackRepository' \ {s} :
               /\ assetStackRepository'[d] = assetStackRepository[d]
               /\ stackAssets(assetRepository', d) = Members(d)]_vars

\* updateAll(ids=[c], stackParentId=a) has added the loose c to a's stack
C6_Witness ==
  /\ last.op = "updateAll"
  /\ last.result = "ok"
  /\ last.id # NULL
  /\ Cardinality(last.ids) = 1
  /\ last.id \notin last.ids
  /\ last.stack # NULL
  /\ last.stackIdsToDelete = {}
  /\ last.stack \in DOMAIN assetStackRepository
  /\ Cardinality(Members(last.stack)) = 3
  /\ assetStackRepository[last.stack].primaryAssetId = last.id

\* C7: the deletion of the primary of a stack with 3 or more members keeps the
\* stack, makes the first other member primary and leaves one member fewer; the
\* deletion of the primary of a 2-member stack deletes the stack and leaves the
\* surviving asset with stackId null.
C7_PrimaryDeletion ==
  [][\A id \in AssetIds :
       LET s == assetRepository[id].stackId
       IN (/\ DeletionStep(id)
           /\ ~ignored(assetRepository[id], last'.flag)
           /\ s # NULL
           /\ s \in DOMAIN assetStackRepository
           /\ assetStackRepository[s].primaryAssetId = id
           /\ Cardinality(Members(s)) >= 2)
          => IF Cardinality(Members(s)) >= 3
             THEN /\ s \in DOMAIN assetStackRepository'
                  /\ assetStackRepository'[s].primaryAssetId = FindOther(last'.loaded, id)
                  /\ stackAssets(assetRepository', s) = Members(s) \ {id}
             ELSE /\ s \notin DOMAIN assetStackRepository'
                  /\ \A b \in Members(s) \ {id} :
                       b \in DOMAIN assetRepository' /\ assetRepository'[b].stackId = NULL]_vars

\* C8: a deletion job without fromExternal for an asset of an external library
\* or without library returns false and changes nothing; only a job flagged
\* fromExternal removes such an asset.
C8_ExternalAssetSkipped ==
  [][\A id \in DOMAIN assetRepository :
       assetRepository[id].libraryType \in {"EXTERNAL", "NONE"}
       => /\ (DeletionStep(id) /\ ~last'.flag)
               => /\ last'.result = "false"
                  /\ UNCHANGED <<assetRepository, assetStackRepository, usage>>
                  /\ jobs' = <<>>
                  /\ events' = <<>>
          /\ id \notin DOMAIN assetRepository'
               => DeletionStep(id) /\ last'.flag /\ last'.result = "true"]_vars

\* a job without fromExternal was skipped for an existing asset
C8_Witness ==
  /\ last.op = "handleAssetDeletion"
  /\ ~last.flag
  /\ last.result = "false"
  /\ last.id \in DOMAIN assetRepository
  /\ assetRepository[last.id].libraryType \in {"EXTERNAL", "NONE"}

\* the usage counter of every user is the total recorded size of the user's
\* remaining assets
UsageAccounted ==
  \A u \in Users :
    usage[u] = SumOver({a \in DOMAIN assetRepository : assetRepository[a].ownerId = u},
                       [a \in AssetIds |-> IF a \in DOMAIN assetRepository
                                           THEN fileSize(assetRepository[a]) ELSE 0])

\* C9: a deletion job for an id already purged returns false, raises nothing,
\* leaves the usage counters alone, enqueues no job and sends no notification;
\* over any sequence of deletion jobs the usage counter has been decremented once
\* per purged asset, by its recorded size.
C9_RepeatedDeletion ==
  /\ []UsageAccounted
  /\ [][\A id \in AssetIds :
          (last'.op = "handleAssetDeletion" /\ last'.id = id
             /\ id \notin DOMAIN assetRepository)
          => /\ last'.result = "false"
             /\ UNCHANGED <<assetRepository, assetStackRepository, usage>>
             /\ jobs' = <<>>
             /\ events' = <<>>]_vars

\* a job ran for an id that was purged before, after a purge that decremented
\* the owner's counter
C9_Witness ==
  /\ last.op = "handleAssetDeletion"
  /\ last.result = "false"
  /\ last.id \notin DOMAIN assetRepository
  /\ \E a \in AssetIds \ DOMAIN assetRepository : fileSize(InitRow(a)) > 0


\* how many times the sweep has queued a job for id
QueuedCount(id) == Cardinality({i \in 1..Len(sweep.queued) : sweep.queued[i] = id})

isDeleteFilesJob(job) == job.name = "DELETE_FILES"

\* C15: every handleAssetDeletion call that purges an asset enqueues one
\* file-removal job that lists the asset's derived paths, and lists the original
\* path if and only if the job was not flagged fromExternal.
C15_FileRemovalJob ==
  [][\A id \in AssetIds :
       (DeletionStep(id) /\ last'.result = "true")
       => LET removal == SelectSeq(jobs', isDeleteFilesJob)
          IN /\ Len(removal) = 1
             /\ derivedFiles(id) \subseteq removal[1].files
             /\ (<<id, "originalPath">> \in removal[1].files) <=> ~last'.flag]_vars

\* C16: an updateAll with stackParentId of which a target id does not exist
\* fails, and no stack is created, saved or deleted, no asset is updated and no
\* notification is sent.
C16_MissingTargetFails ==
  [][\A p \in AssetIds, targets \in SUBSET AssetIds :
       (StackParentStep(targets, p) /\ ~(targets \subseteq DOMAIN assetRepository))
       => /\ last'.result # "ok"
          /\ UNCHANGED <<assetRepository, assetStackRepository>>
          /\ events' = <<>>]_vars

isDelete(c) == c.call = "assetStackRepository.delete"
isMembershipWrite(c) ==
  c.call \in {"assetStackRepository.create", "assetStackRepository.save"}
isAssetWrite(c) == c.call = "assetRepository.updateAll"

\* C17: within one updateAll call every delete of a stack is issued after the
\* destination stack's membership write (create or save) and after the
\* assetRepository.updateAll write; no delete comes before them.
C17_DeleteAfterWrite ==
  last.op = "updateAll" =>
    LET log == last.log
        deletes == {i \in 1..Len(log) : isDelete(log[i])}
    IN /\ \A i \in deletes, j \in 1..Len(log) :
            (isMembershipWrite(log[j]) \/ isAssetWrite(log[j])) => j < i
       /\ deletes # {} => \E j \in 1..Len(log) : isAssetWrite(log[j])
       /\ (deletes # {} /\ last.id # NULL) => \E j \in 1..Len(log) : isMembershipWrite(log[j])
       /\ {log[i].id : i \in deletes} = last.stackIdsToDelete

\* an updateAll with stackParentId has written the membership and then deleted a
\* superseded stack
C17_Witness ==
  /\ last.op = "updateAll"
  /\ last.result = "ok"
  /\ last.id # NULL
  /\ \E i \in 1..Len(last.log) : isDelete(last.log[i])
  /\ \E i \in 1..Len(last.log) : isMembershipWrite(last.log[i])

\* the primary of a's stack, NULL when a has no stack
primaryOf(ar, sr, a) ==
  IF a \in DOMAIN ar /\ assetStack(ar, sr, a) # NULL
  THEN sr[assetStack(ar, sr, a)].primaryAssetId ELSE NULL

\* C18: a successful updateAll sends one ASSET_UPDATE notification to the caller,
\* whose ids contain every target, every asset whose stackId or whose stack's
\* primary changed in the call, and for removeParent the primary of every stack a
\* target belonged to.
C18_UpdateNotifiesTouched ==
  [][(last'.op = "updateAll" /\ last'.result = "ok")
     => /\ Len(events') = 1
        /\ events'[1].name = "ASSET_UPDATE"
        /\ events'[1].userId \in Callers
        /\ last'.ids \subseteq events'[1].ids
        /\ \A a \in DOMAIN assetRepository :
             (\/ assetRepository'[a].stackId # assetRepository[a].stackId
              \/ primaryOf(assetRepository', assetStackRepository', a)
                   # primaryOf(assetRepository, assetStackRepository, a))
             => a \in events'[1].ids
        /\ last'.flag =>
             \A t \in last'.ids \cap DOMAIN assetRepository :
               primaryOf(assetRepository, assetStackRepository, t) # NULL
               => primaryOf(assetRepository, assetStackRepository, t) \in events'[1].ids]_vars

\* a successful updateAll has notified more ids than its targets: a sibling
\* pulled into the destination stack or the primary of a stack taken apart
C18_Witness ==
  /\ last.op = "updateAll"
  /\ last.result = "ok"
  /\ Len(events) = 1
  /\ events[1].ids \ (last.ids \cup {last.id}) # {}

\* ---------------------------------------------------------- claims C12, C13
\* C12: a finished handleTrashAction(RESTORE_ALL) whose scan yielded N pages has
\* sent exactly N ASSET_RESTORE notifications, the k-th with exactly the ids of
\* the k-th page, each after that page's restoreAll store call and before the
\* next page was fetched; it never sends one combined notification.
C12_RestoreNotifiesPerPage ==
  (trash.pc \in {"paging", "done"} /\ trash.action = "RESTORE_ALL")
  => LET N == Len(trash.pages)
     IN /\ Len(trash.sent) = N
        /\ \A k \in 1..N :
             /\ trash.sent[k] = Event("ASSET_RESTORE", trash.user, Range(trash.pages[k]))
        /\ Len(trash.log) = 3 * N
        /\ \A k \in 1..N :
             /\ trash.log[3 * k - 2].call = "assetRepository.getByUserId"
             /\ trash.log[3 * k - 1] =
                  StoreCall("assetRepository.restoreAll", NULL, Range(trash.pages[k]))
             /\ trash.log[3 * k] =
                  StoreCall("communicationRepository.send", NULL, Range(trash.pages[k]))

\* a RESTORE_ALL over two pages has finished, the first page not empty
C12_Witness ==
  /\ trash.pc = "done"
  /\ trash.action = "RESTORE_ALL"
  /\ Len(trash.pages) >= 2
  /\ trash.pages[1] # <<>>
  /\ events = trash.sent

\* C13: deleteAll(ids, force=true) enqueues one ASSET_DELETION job per id, marks
\* no asset trashed and sends nothing; deleteAll(ids, force=false) marks exactly
\* the given ids trashed, sends one ASSET_TRASH notification with those ids and
\* enqueues no job; a call the delete permission check refuses does neither.
C13_DeleteAll ==
  [][last'.op = "deleteAll"
     => IF last'.result = "Forbidden"
        THEN /\ UNCHANGED assetRepository
             /\ jobs' = <<>>
             /\ events' = <<>>
        ELSE IF last'.flag
        THEN /\ UNCHANGED assetRepository
             /\ events' = <<>>
             /\ Len(jobs') = Cardinality(last'.ids)
             /\ \A id \in last'.ids :
                  Cardinality({i \in 1..Len(jobs') : jobs'[i] = DeletionJob(id, FALSE)}) = 1
        ELSE /\ jobs' = <<>>
             /\ Len(events') = 1
             /\ events'[1].name = "ASSET_TRASH"
             /\ events'[1].userId \in Callers
             /\ events'[1].ids = last'.ids
             /\ DOMAIN assetRepository' = DOMAIN assetRepository
             /\ \A a \in DOMAIN assetRepository :
                  IF a \in last'.ids
                  THEN /\ assetRepository'[a].trashedAt # NULL
                       /\ assetRepository'[a] =
                            [assetRepository[a] EXCEPT !.trashedAt = assetRepository'[a].trashedAt]
                  ELSE assetRepository'[a] = assetRepository[a]]_vars

\* both kinds of deleteAll have happened: one asset is in the trash, and the
\* latest call has queued deletion jobs without trashing
C13_Witness ==
  /\ last.op = "deleteAll"
  /\ last.flag
  /\ Len(jobs) >= 2
  /\ \E a \in DOMAIN assetRepository : assetRepository[a].trashedAt # NULL
  /\ \E a \in last.ids : assetRepository[a].trashedAt = NULL

\* ------------------------------------------------------------------ claim C14
\* the latest job purged an asset whose live-photo companion is m
PurgedWithCompanion(m) ==
  /\ last.op = "handleAssetDeletion"
  /\ last.result = "true"
  /\ \E i \in 1..Len(jobs) : jobs[i].name = "ASSET_DELETION" /\ jobs[i].id = m

\* C14: when handleAssetDeletion purges an asset that has a live-photo
\* companion, a deletion job for the companion is enqueued, and with every
\* queued job eventually run the companion is eventually purged too, whether
\* the first job was flagged fromExternal or not.
C14_CompanionPurged ==
  /\ [][\A id \in AssetIds :
          (/\ DeletionStep(id)
           /\ last'.result = "true"
           /\ assetRepository[id].livePhotoVideoId # NULL)
          => \E i \in 1..Len(jobs') :
               /\ jobs'[i].name = "ASSET_DELETION"
               /\ jobs'[i].id = assetRepository[id].livePhotoVideoId]_vars
  /\ \A m \in AssetIds : PurgedWithCompanion(m) ~> (m \notin DOMAIN assetRepository)

\* (sanity) the cascade of an asset of an upload library purges the companion
CascadeUploadPurgesCompanion ==
  \A m \in AssetIds :
    (PurgedWithCompanion(m) /\ assetRepository[m].libraryType = "UPLOAD")
      ~> (m \notin DOMAIN assetRepository)

\* (sanity) a photo and its companion have both been purged
CascadeDone ==
  /\ last.op = "handleAssetDeletion"
  /\ last.result = "true"
  /\ Cardinality(DOMAIN assetRepository) = MaxAssets - 2

\* ------------------------------------------------------ claims C11, C19, C20
\* the archive descriptors getDownloadInfo returned
Archives == download.result.archives

sizeOf(a) == fileSize(assetRepository[a])

\* how many times id a is listed in the returned descriptors
Listed(a) ==
  Cardinality({ik \in (1..Len(Archives)) \X (1..MaxDownloadAssets * 2) :
                 /\ ik[2] <= Len(Archives[ik[1]].assetIds)
                 /\ Archives[ik[1]].assetIds[ik[2]] = a})

\* C11: every returned archive but the last has a size above the target size,
\* and at most the target size without its last asset (an archive is closed when
\* its size exceeds the target, not when it reaches it); for the assets of 1, 1,
\* 1, 1.5 and 0.6 GiB and the target 4 GiB the archives have sizes 4.5 and 0.6 GiB.
C11_ClosedWhenExceeding ==
  download.pc = "done" =>
    /\ \A i \in 1..(Len(Archives) - 1) :
         /\ Archives[i].size > download.targetSize
         /\ Len(Archives[i].assetIds) > 0
         /\ Archives[i].size - sizeOf(Archives[i].assetIds[Len(Archives[i].assetIds)])
              <= download.targetSize
    /\ (/\ download.rows = <<1, 2, 3, 4, 5>>
        /\ \A a \in DOMAIN assetRepository : assetRepository[a].livePhotoVideoId = NULL
        /\ download.targetSize = 4 * GiB)
       => [i \in 1..Len(Archives) |-> Archives[i].size]
            = <<(9 * GiB) \div 2, (6 * GiB) \div 10>>

\* C19: in the returned archives the id of a live-photo companion stands
\* immediately after the id of its primary, in the same archive.
C19_CompanionFollowsPrimary ==
  download.pc = "done" =>
    \A p \in Range(download.rows) :
      LET m == assetRepository[p].livePhotoVideoId
      IN (m # NULL /\ m \in DOMAIN assetRepository)
         => \E i \in 1..Len(Archives) :
              \E k \in 1..(Len(Archives[i].assetIds) - 1) :
                /\ Archives[i].assetIds[k] = p
                /\ Archives[i].assetIds[k + 1] = m

\* C20: every streamed asset id is listed in exactly one returned descriptor,
\* once; no descriptor is listed twice; the size of a descriptor is the sum of
\* the sizes of its ids; totalSize is the sum of the sizes of the streamed
\* assets.
C20_EveryAssetOnce ==
  download.pc = "done" =>
    /\ \A a \in Range(download.streamed) : Listed(a) = 1
    /\ \A i, j \in 1..Len(download.archives) :
         download.archives[i] = download.archives[j] => i = j
    /\ \A i \in 1..Len(Archives) :
         Archives[i].size = SeqSum([k \in 1..Len(Archives[i].assetIds) |->
                                      sizeOf(Archives[i].assetIds[k])])
    /\ download.result.totalSize =
         SumOver(Range(download.streamed),
                 [a \in DOMAIN assetRepository |-> sizeOf(a)])

\* (sanity) a download of one page returns what C11 and C20 say
DownloadOnePage ==
  (download.pc = "done" /\ download.take >= Len(download.rows)
     /\ \A a \in Range(download.rows) : Listed(a) = 1)
  => /\ \A i \in 1..(Len(Archives) - 1) : Archives[i].size > download.targetSize
     /\ download.result.totalSize =
          SumOver(Range(download.streamed), [a \in DOMAIN assetRepository |-> sizeOf(a)])

\* ------------------------------------------------------------------ claim C24
\* the step is an updateAll with removeParent over targets, let through by the
\* guard
RemoveParentStep(targets) ==
  /\ last'.op = "updateAll"
  /\ last'.flag
  /\ last'.ids = targets

\* the stacks the existing targets belong to
TargetStacks(targets) ==
  {assetRepository[t].stackId : t \in targets \cap DOMAIN assetRepository} \ {NULL}

\* C24: updateAll with removeParent clears the stack of every target, deletes
\* each stack a target belonged to, with one delete per stack, writes the current
\* primary of each such stack along with the targets, and leaves every stack no
\* target belonged to as it was.
C24_RemoveParent ==
  [][\A targets \in SUBSET AssetIds \ {{}} :
       RemoveParentStep(targets)
       => LET affected == TargetStacks(targets)
              log == last'.log
              written == UNION {log[i].ids : i \in {j \in 1..Len(log) : isAssetWrite(log[j])}}
          IN /\ \A t \in targets \cap DOMAIN assetRepository :
                  assetRepository'[t].stackId = NULL
             /\ \A s \in affected :
                  /\ s \notin DOMAIN assetStackRepository'
                  /\ Cardinality({i \in 1..Len(log) : isDelete(log[i]) /\ log[i].id = s}) = 1
             /\ \A i \in 1..Len(log) : isDelete(log[i]) => log[i].id \in affected
             /\ \A s \in affected \cap DOMAIN assetStackRepository :
                  assetStackRepository[s].primaryAssetId \in written
             /\ targets \subseteq written
             /\ \A s \in DOMAIN assetStackRepository \ affected :
                  /\ s \in DOMAIN assetStackRepository'
                  /\ assetStackRepository'[s] = assetStackRepository[s]
                  /\ stackAssets(assetRepository', s) = Members(s)]_vars

\* ------------------------------------------------------------------ claim C25
\* C25: a successful updateStackParent(oldParentId, newParentId) was called for
\* an existing oldParentId that is in a stack, and changes only the
\* primaryAssetId of that stack, to newParentId: no stackId of an asset and no
\* member set changes, no stack is created or deleted; a call that fails writes
\* nothing to the stores and sends no notification.
C25_UpdateStackParentFrame ==
  [][last'.op = "updateStackParent"
     => IF last'.result = "ok"
        THEN LET old == last'.id
                 s == assetRepository[old].stackId
             IN /\ old \in DOMAIN assetRepository
                /\ s # NULL
                /\ assetRepository' = assetRepository
                /\ DOMAIN assetStackRepository' = DOMAIN assetStackRepository
                /\ s \in DOMAIN assetStackRepository
                /\ assetStackRepository'[s].primaryAssetId = last'.other
                /\ \A d \in DOMAIN assetStackRepository \ {s} :
                     assetStackRepository'[d] = assetStackRepository[d]
                /\ \A d \in DOMAIN assetStackRepository :
                     stackAssets(assetRepository', d) = Members(d)
                /\ usage' = usage
        ELSE /\ UNCHANGED <<assetRepository, assetStackRepository, usage>>
             /\ events' = <<>>
             /\ jobs' = <<>>]_vars

\* a successful updateStackParent has given a stack of two members another
\* primary, while another stack exists
C25_Witness ==
  /\ last.op = "updateStackParent"
  /\ last.result = "ok"
  /\ last.other # last.id
  /\ last.stack \in DOMAIN assetStackRepository
  /\ assetStackRepository[last.stack].primaryAssetId = last.other
  /\ Cardinality(Members(last.stack)) >= 2
  /\ Cardinality(DOMAIN assetStackRepository) >= 2

\* (sanity) an updateStackParent for an asset that is in no stack has failed
UpdateStackParentRefused ==
  /\ last.op = "updateStackParent"
  /\ last.result = "Error"
  /\ assetStackRepository # <<>>

\* ------------------------------------------------------------------ claim C26
\* how many of the notifications the call has sent hold id a
NotifiedCount(a) == Cardinality({k \in 1..Len(trash.sent) : a \in trash.sent[k].ids})

RestoreAllOnePage ==
  (trash.pc = "done" /\ trash.action = "RESTORE_ALL" /\ Cardinality(trash.start) <= PageSize)
  => \A a \in trash.start :
       /\ assetRepository[a].trashedAt = NULL
       /\ NotifiedCount(a) = 1

\* (sanity) a RESTORE_ALL has finished over more than one page of trashed assets
RestoreAllManyPages ==
  /\ trash.pc = "done"
  /\ trash.action = "RESTORE_ALL"
  /\ Cardinality(trash.start) > PageSize

\* ------------------------------------------------------------------ claim C21
AllComplete == \A p \in Procs : Complete(requests[p])

\* C21: after two updateAll stack mutations that ran concurrently, interleaved at
\* their store calls, have both completed, the primary of every stack is a
\* member of it and no asset references a stack that does not exist (an asset
\* has one stackId, so it is in no two stacks).
C21_ConcurrentMutations ==
  AllComplete
  => /\ \A s \in DOMAIN assetStackRepository :
          assetStackRepository[s].primaryAssetId \in Members(s)
     /\ \A a \in DOMAIN assetRepository :
          assetRepository[a].stackId # NULL
          => assetRepository[a].stackId \in DOMAIN assetStackRepository

\* (sanity) the same for two mutations with stackParentId that both returned:
\* violated only by an interleaving, see StackParentAloneKeepsPrimary
ConcurrentStackParents ==
  (AllComplete /\ \A p \in Procs : ~requests[p].removeParent /\ requests[p].result = "ok")
  => \A s \in DOMAIN assetStackRepository :
       assetStackRepository[s].primaryAssetId \in Members(s)

\* (sanity) an updateAll with stackParentId that runs alone, from a state in
\* which the primary of every stack is a member, leaves such a state
StackParentAloneKeepsPrimary ==
  [][(/\ last'.op = "updateAll"
      /\ last'.id # NULL
      /\ last'.result = "ok"
      /\ \A s \in DOMAIN assetStackRepository :
           assetStackRepository[s].primaryAssetId \in Members(s))
     => \A s \in DOMAIN assetStackRepository' :
          assetStackRepository'[s].primaryAssetId \in stackAssets(assetRepository', s)]_vars

\* ------------------------------------------------------------------ claim C22
\* C22: when one deletion job has been delivered twice, the executions
\* interleaved at their store calls or the second run after the first failed at
\* a store call, no execution has raised an error of its own and the usage
\* counter of the owner is lower by the size of the asset exactly once if the
\* asset was purged (every counter is the total size of the user's remaining
\* assets).
C22_RedeliveredDeletion ==
  AllComplete
  => /\ \A p \in Procs : requests[p].failed => requests[p].injected
     /\ UsageAccounted

\* (sanity) two deliveries that overlapped, neither failed: the usage part
RedeliveryOverlapped ==
  (AllComplete /\ \A p \in Procs : requests[p].result = "true") => UsageAccounted

\* (sanity) the first delivery failed at a store call and the second ran after
\* it: the usage part
RedeliveryAfterFailure ==
  (AllComplete /\ requests[1].injected /\ requests[2].result = "false") => UsageAccounted

\* (sanity) one delivery ran to its end and the other found the asset gone:
\* the counter was decremented once
RedeliveryOneAfterTheOther ==
  (AllComplete /\ \E p, q \in Procs : /\ requests[p].result = "true"
                                      /\ requests[q].result = "false"
                                      /\ ~requests[q].injected)
  => UsageAccounted

\* ------------------------------------------------------------------ claim C23
NoDanglingStackId ==
  \A a \in DOMAIN assetRepository :
    assetRepository[a].stackId # NULL
    => assetRepository[a].stackId \in DOMAIN assetStackRepository

\* C23 as stated: after an updateAll or handleAssetDeletion call that failed at
\* one of its store calls, no asset references a stack that does not exist and
\* the primary of every stack is a member of it.
C23_FailureLeavesPrimaries ==
  requests[1].pc = "failed"
  => /\ NoDanglingStackId
     /\ \A s \in DOMAIN assetStackRepository :
          assetStackRepository[s].primaryAssetId \in Members(s)

\* C23 amended: after such a call no asset references a stack that does not
\* exist, and a stack whose primary is not a member is a superseded stack: one
\* the call had marked for deletion, whose row still exists after the call's
\* membership write.
C23_FailureLeavesSuperseded ==
  requests[1].pc = "failed"
  => /\ NoDanglingStackId
     /\ \A s \in DOMAIN assetStackRepository :
          assetStackRepository[s].primaryAssetId \notin Members(s)
          => /\ requests[1].op = "updateAll"
             /\ s \in requests[1].stackIdsToDelete
             /\ s # requests[1].stack

\* an updateAll failed at a delete after its membership write: a superseded stack
\* row is left, and its primary is not a member
C23_Witness ==
  /\ requests[1].pc = "failed"
  /\ requests[1].op = "updateAll"
  /\ \E s \in requests[1].stackIdsToDelete \cap DOMAIN assetStackRepository :
       assetStackRepository[s].primaryAssetId \notin Members(s)

\* (sanity) a handleAssetDeletion failed after it had written
DeletionFailedPartway ==
  /\ requests[1].pc = "failed"
  /\ requests[1].op = "handleAssetDeletion"
  /\ requests[1].id \notin DOMAIN assetRepository

\* (sanity) a sweep between whose pages no deletion job ran queued every asset
\* trashed at its start exactly once
SweepAloneQueuesEveryTrashedOnce ==
  (sweep.pc = "done" /\ ~sweep.ran)
  => /\ \A a \in sweep.start : QueuedCount(a) = 1
     /\ \A i \in 1..Len(sweep.queued) : sweep.queued[i] \in sweep.start

=============================================================================
